---- MODULE Spec2Model ----
(***************************************************************************)
(* Control plane of the sample relay node: main() builds and starts one   *)
(* ldk_node engine, then serves ten HTTP handlers that each translate a    *)
(* request into engine calls and the engine's answer into a response.      *)
(* Every `.unwrap()` / `.expect()` of the source is a panic edge.          *)
(***************************************************************************)
EXTENDS Integers, Sequences, FiniteSets, TLC

\* Number of requests the clients send in one run.
MaxRequests == 2

\* ------------------------------------------------------------------------
\* u64 arithmetic.  A u64 is four 16-bit limbs, least significant first, so
\* that the real 64-bit width is kept while every intermediate stays small.
\* ------------------------------------------------------------------------
LimbBase == 2 ^ 16

U64Limbs == 64 \div 16

U64Zero == <<0, 0, 0, 0>>

U64One == <<1, 0, 0, 0>>

U64Two == <<2, 0, 0, 0>>

\* 18446744073709551 = floor((2^64 - 1) / 1000): the largest value whose
\* product with 1000 still fits in a u64.
U64MaxScalable == <<42991, 19398, 35127, 65>>

\* 18446744073709552: the smallest value whose product with 1000 overflows.
U64MinOverflow == <<42992, 19398, 35127, 65>>

\* 2^64 - 1
U64Max == <<65535, 65535, 65535, 65535>>

\* The exact product limbs * k as a limb sequence one limb longer than the
\* operand (k < 2^15, so the last carry fits in one limb).
RECURSIVE MulLimbs(_, _, _)
MulLimbs(limbs, k, carry) ==
    IF limbs = <<>> THEN <<carry>>
    ELSE LET t == Head(limbs) * k + carry
         IN  <<t % LimbBase>> \o MulLimbs(Tail(limbs), k, t \div LimbBase)

\* The mathematical value x * k of a u64 x, five limbs.
ExactMul(x, k) == MulLimbs(x, k, 0)

\* A u64 widened to five limbs, to compare with an exact product.
Widen(x) == x \o <<0>>

\* Whether the u64 multiplication x * k overflows.
MulOverflows(x, k) == ExactMul(x, k)[U64Limbs + 1] # 0

\* x * k as the wrapping u64 multiplication computes it (mod 2^64).
WrappingMul(x, k) == SubSeq(ExactMul(x, k), 1, U64Limbs)

\* ------------------------------------------------------------------------
\* Hex text.  Text is a sequence of one-character strings.
\* ------------------------------------------------------------------------
LowerHexDigits == <<"0", "1", "2", "3", "4", "5", "6", "7", "8", "9", "a", "b", "c", "d", "e", "f">>

UpperHexDigits == <<"0", "1", "2", "3", "4", "5", "6", "7", "8", "9", "A", "B", "C", "D", "E", "F">>

IsHexDigit(c) == \E i \in 1..16 : LowerHexDigits[i] = c \/ UpperHexDigits[i] = c

HexValue(c) == (CHOOSE i \in 1..16 : LowerHexDigits[i] = c \/ UpperHexDigits[i] = c) - 1

\* DisplayHex::to_lower_hex_string
to_lower_hex_string(bytes) ==
    [i \in 1..(2 * Len(bytes)) |->
        LET b == bytes[(i + 1) \div 2]
        IN  IF i % 2 = 1 THEN LowerHexDigits[(b \div 16) + 1]
                         ELSE LowerHexDigits[(b % 16) + 1]]

\* The same bytes as a caller may spell them: upper-case digits.
to_upper_hex_string(bytes) ==
    [i \in 1..(2 * Len(bytes)) |->
        LET b == bytes[(i + 1) \div 2]
        IN  IF i % 2 = 1 THEN UpperHexDigits[(b \div 16) + 1]
                         ELSE UpperHexDigits[(b % 16) + 1]]

Ok(v) == [ok |-> TRUE, val |-> v]

Err == [ok |-> FALSE, val |-> <<>>]

\* <[u8; n]>::from_hex: exactly 2n hex digits, either case.
from_hex(text, n) ==
    IF Len(text) # 2 * n THEN Err
    ELSE IF \E i \in 1..Len(text) : ~IsHexDigit(text[i]) THEN Err
    ELSE Ok([i \in 1..n |-> 16 * HexValue(text[2 * i - 1]) + HexValue(text[2 * i])])

\* ------------------------------------------------------------------------
\* Request text that the handlers parse.
\* ------------------------------------------------------------------------
DecDigits == <<"0", "1", "2", "3", "4", "5", "6", "7", "8", "9">>

IsDigit(c) == \E i \in 1..10 : DecDigits[i] = c

DigitValue(c) == (CHOOSE i \in 1..10 : DecDigits[i] = c) - 1

RECURSIVE DecValue(_)
DecValue(text) ==
    IF text = <<>> THEN 0
    ELSE 10 * DecValue(SubSeq(text, 1, Len(text) - 1)) + DigitValue(text[Len(text)])

\* Index of the last ":" of the text, 0 when it has none.
LastColon(text) ==
    LET at == {i \in 1..Len(text) : text[i] = ":"}
    IN  IF at = {} THEN 0 ELSE CHOOSE i \in at : \A j \in at : j <= i

\* SocketAddress::from_str: "host:port" with a non-empty host and a u16 port.
SocketAddress_from_str(text) ==
    LET c    == LastColon(text)
        port == SubSeq(text, c + 1, Len(text))
    IN  IF c <= 1 THEN Err
        ELSE IF Len(port) \notin 1..5 \/ \E i \in 1..Len(port) : ~IsDigit(port[i]) THEN Err
        ELSE IF DecValue(port) >= 2 ^ 16 THEN Err
        ELSE Ok([host |-> SubSeq(text, 1, c - 1), port |-> DecValue(port)])

\* A payment hash: 32 bytes.
HashLen == 32

PaymentHash(b) == [i \in 1..HashLen |-> (b + i) % 256]

\* The invoice text carries its payment hash: "ln", the hash in hex, a tag.
InvoicePrefix == <<"l", "n">>

InvoiceText(hash, tag) == InvoicePrefix \o to_lower_hex_string(hash) \o <<tag>>

\* Bolt11Invoice::from_str
Bolt11Invoice_from_str(text) ==
    LET n == Len(InvoicePrefix) + 2 * HashLen
    IN  IF Len(text) # n + 1 \/ SubSeq(text, 1, Len(InvoicePrefix)) # InvoicePrefix THEN Err
        ELSE LET h == from_hex(SubSeq(text, Len(InvoicePrefix) + 1, n), HashLen)
             IN  IF ~h.ok THEN Err
                 ELSE Ok([payment_hash |-> h.val, tag |-> text[n + 1]])

\* ------------------------------------------------------------------------
\* Inputs of one run.
\* ------------------------------------------------------------------------
HashA == PaymentHash(16)

HashB == PaymentHash(170)

HashUnknown == PaymentHash(200)

ValidAddress == <<"1", ".", "2", ".", "3", ".", "4", ":", "9", "7", "3", "5">>

InvalidAddress == <<"n", "o", "t", "-", "a", "n", "-", "a", "d", "d", "r", "e", "s", "s">>

PortTooLarge == <<"h", ":", "6", "5", "5", "3", "6">>

PeerKey == "02peer"

\* A 64-byte seed, as 128 hex digits, and one that is a digit short.
SeedHexValid == to_lower_hex_string([i \in 1..64 |-> (7 * i) % 256])

SeedHexShort == SubSeq(SeedHexValid, 1, 127)

NoSeed == <<"-">>

NoInput ==
    [verb |-> "", pubkey |-> "", ip_port |-> <<>>, funding_sats |-> U64Zero,
     push_sats |-> U64Zero, invoice |-> <<>>, amount_sats |-> U64Zero,
     payment_hash |-> <<>>]

Request(verb) == [NoInput EXCEPT !.verb = verb]

ConnectPeerRequests ==
    {[Request("connect_peer") EXCEPT !.pubkey = PeerKey, !.ip_port = a] :
        a \in {ValidAddress, InvalidAddress}}

OpenChannelRequests ==
    {[Request("open_channel") EXCEPT !.pubkey = PeerKey, !.ip_port = a,
                                     !.funding_sats = f, !.push_sats = p] :
        a \in {ValidAddress, InvalidAddress, PortTooLarge},
        f \in {U64Two},
        p \in {U64One, U64MinOverflow}}

PayInvoiceRequests ==
    {[Request("pay_invoice") EXCEPT !.invoice = i] :
        i \in {InvoiceText(HashA, "x"), InvoiceText(HashA, "y"),
               InvoiceText(HashB, "x"), <<"l", "n", "?">>}}

GetInvoiceRequests ==
    {[Request("get_invoice") EXCEPT !.amount_sats = a] :
        a \in {U64One, U64MaxScalable, U64MinOverflow, U64Max}}

GetPaymentRequests ==
    {[Request("get_payment") EXCEPT !.payment_hash = h] :
        h \in {to_lower_hex_string(HashA), to_upper_hex_string(HashB),
               to_lower_hex_string(HashUnknown),
               SubSeq(to_lower_hex_string(HashA), 1, 2 * HashLen - 1)}}

NoBodyRequests ==
    {Request(v) : v \in {"list_peers", "funding_address", "list_channels", "sync", "get_balance"}}

AllRequests ==
    ConnectPeerRequests \cup OpenChannelRequests \cup PayInvoiceRequests
        \cup GetInvoiceRequests \cup GetPaymentRequests \cup NoBodyRequests

\* ------------------------------------------------------------------------
\* State.
\* ------------------------------------------------------------------------
VARIABLES
    pc,        \* main(): the statement it is at
    proc,      \* "running", or "exited" once a panic has ended the process
    seed_hex,  \* args.seed_hex
    node,      \* the engine's lifecycle: [built, started]
    listener,  \* whether the control-plane TcpListener is bound
    peers,     \* engine: the peers it knows, in its order
    channels,  \* engine: its channels (ChannelDetails), in its order
    payments,  \* engine: its payment store
    balances,  \* engine: its current balance snapshot
    snapshots, \* every balance snapshot the engine has held
    addr_index,\* engine: the on-chain address derivation index
    req        \* the requests: each one's input, progress and outcome

vars == <<pc, proc, seed_hex, node, listener, peers, channels, payments, balances,
          snapshots, addr_index, req>>

engine_vars == <<peers, channels, payments, balances, snapshots, addr_index>>

main_vars == <<pc, seed_hex, node, listener>>

Slots == 1..MaxRequests

Idle == [state |-> "idle", input |-> NoInput, calls |-> <<>>, returned |-> {},
         outcome |-> "none", response |-> <<>>]

Balances == {[total_onchain_balance_sats |-> t, spendable_onchain_balance_sats |-> s] :
                <<t, s>> \in {<<0, 0>>, <<5, 3>>, <<9, 9>>}}

Init ==
    /\ pc = "seed"
    /\ proc = "running"
    /\ seed_hex \in {NoSeed, SeedHexValid, SeedHexShort}
    /\ node = [built |-> FALSE, started |-> FALSE]
    /\ listener = FALSE
    /\ peers = <<>>
    /\ channels = <<>>
    /\ payments = <<>>
    /\ balances = [total_onchain_balance_sats |-> 0, spendable_onchain_balance_sats |-> 0]
    /\ snapshots = {balances}
    /\ addr_index = 0
    /\ req = [r \in Slots |-> Idle]

\* ------------------------------------------------------------------------
\* main()
\* ------------------------------------------------------------------------
\* A panic on the main thread ends the process where it stands.
main_panics ==
    /\ proc' = "exited"
    /\ UNCHANGED <<pc, node, listener>>

\* seed_hex.map(from_hex(..).expect(..)).unwrap_or_else(generate)
main_seed ==
    /\ proc = "running" /\ pc = "seed"
    /\ seed_hex' = NoSeed
    /\ IF seed_hex # NoSeed /\ ~from_hex(seed_hex, 64).ok
       THEN main_panics
       ELSE pc' = "build" /\ UNCHANGED <<proc, node, listener>>
    /\ UNCHANGED <<engine_vars, req>>

\* Builder::new()...build_with_fs_store().unwrap()
main_build ==
    /\ proc = "running" /\ pc = "build"
    /\ \/ pc' = "start" /\ node' = [node EXCEPT !.built = TRUE]
          /\ UNCHANGED <<proc, listener>>
       \/ main_panics
    /\ UNCHANGED <<seed_hex, engine_vars, req>>

\* main() going on whether or not node.start() succeeded.
main_start_unchecked ==
    /\ proc = "running" /\ pc = "start"
    /\ pc' = "runtime"
    /\ \/ node' = [node EXCEPT !.started = TRUE]
       \/ UNCHANGED node
    /\ UNCHANGED <<proc, listener>>
    /\ UNCHANGED <<seed_hex, engine_vars, req>>

\* node.start().unwrap()
main_start ==
    /\ proc = "running" /\ pc = "start"
    /\ \/ pc' = "runtime" /\ node' = [node EXCEPT !.started = TRUE]
          /\ UNCHANGED <<proc, listener>>
       \/ main_panics
    /\ UNCHANGED <<seed_hex, engine_vars, req>>

\* AppState, Router, Runtime::new().unwrap()
main_runtime ==
    /\ proc = "running" /\ pc = "runtime"
    /\ \/ pc' = "bind" /\ UNCHANGED <<proc, node, listener>>
       \/ main_panics
    /\ UNCHANGED <<seed_hex, engine_vars, req>>

\* TcpListener::bind(..).await.unwrap()
main_bind ==
    /\ proc = "running" /\ pc = "bind"
    /\ \/ pc' = "serve" /\ listener' = TRUE /\ UNCHANGED <<proc, node>>
       \/ main_panics
    /\ UNCHANGED <<seed_hex, engine_vars, req>>

\* The user_channel_ids that open-channel responses have handed to callers
\* by the time a list-channels request arrives (kept with that request).
ReturnedChannelIds(q) ==
    IF q.verb # "list_channels" THEN {}
    ELSE {req[s].response.user_channel_id :
            s \in {t \in Slots : /\ req[t].input.verb = "open_channel"
                                 /\ req[t].outcome = "response"}}

\* axum::serve(listener, app): a request is read off the listener and routed
\* to its handler.
Accept(requests) ==
    /\ proc = "running" /\ pc = "serve" /\ listener
    /\ \E r \in Slots, q \in requests :
        /\ req[r].state = "idle"
        /\ \A s \in Slots : s < r => req[s].state # "idle"
        /\ req' = [req EXCEPT ![r] = [Idle EXCEPT !.state = "handling", !.input = q,
                                                  !.returned = ReturnedChannelIds(q)]]
    /\ UNCHANGED <<proc, main_vars, engine_vars>>

\* ------------------------------------------------------------------------
\* How a handler ends.
\* ------------------------------------------------------------------------
Handling(r, verb) ==
    /\ proc = "running" /\ pc = "serve"
    /\ req[r].state = "handling" /\ req[r].input.verb = verb

\* The handler returns Json(response); the server encodes it for the caller.
Responds(r, calls, response) ==
    /\ req' = [req EXCEPT ![r] = [@ EXCEPT !.state = "done", !.calls = calls,
                                           !.outcome = "response", !.response = response]]
    /\ UNCHANGED proc

\* An unwrap() on Err/None (or a checked arithmetic overflow) panics inside
\* the handler.  Built with panic = "unwind" the runtime drops the request's
\* task and the caller's connection closes with no response; built with
\* panic = "abort" the process ends.
Panics(r, calls) ==
    /\ req' = [req EXCEPT ![r] = [@ EXCEPT !.state = "done", !.calls = calls,
                                           !.outcome = "panic"]]
    /\ \/ UNCHANGED proc
       \/ proc' = "exited"

Call(op, args) == [op |-> op, args |-> args]

\* ------------------------------------------------------------------------
\* Text the responses render.
\* ------------------------------------------------------------------------
RECURSIVE DecText(_)
DecText(n) ==
    IF n < 10 THEN <<DecDigits[n + 1]>>
    ELSE DecText(n \div 10) \o <<DecDigits[(n % 10) + 1]>>

\* SocketAddress::to_string
SocketAddress_to_string(a) == a.host \o <<":">> \o DecText(a.port)

\* Address::to_string of the address at a derivation index
Address_to_string(index) == <<"b", "c", "1", "q">> \o DecText(index)

\* ------------------------------------------------------------------------
\* The engine (ldk_node::Node), as the control plane sees it.
\* ------------------------------------------------------------------------
\* Node::connect: the peer is recorded once.
engine_connect(node_id, address) ==
    IF \E i \in 1..Len(peers) : peers[i].node_id = node_id
    THEN peers
    ELSE Append(peers, [node_id |-> node_id, address |-> address])

\* The UserChannelId the engine gives its next channel.
NextUserChannelId == 100 + Len(channels)

ChannelIdBytes(n) == [i \in 1..32 |-> (n + 3 * i) % 256]

\* Node::connect_open_channel: a new channel, not yet ready.
engine_open_channel(node_id, amount_sats) ==
    Append(channels,
        [channel_id |-> ChannelIdBytes(Len(channels)),
         counterparty_node_id |-> node_id,
         channel_value_sats |-> amount_sats,
         user_channel_id |-> NextUserChannelId,
         outbound_capacity_msat |-> U64Zero,
         inbound_capacity_msat |-> U64Zero,
         is_channel_ready |-> FALSE,
         is_usable |-> FALSE])

\* Node::payment: the stored payment with this hash, if any.
engine_payment(hash) ==
    LET at == {i \in 1..Len(payments) : payments[i].hash = hash}
    IN  IF at = {} THEN Err ELSE Ok(payments[CHOOSE i \in at : TRUE])

PreimageOf(hash) == [i \in 1..Len(hash) |-> (hash[i] + 1) % 256]

\* Node::send_payment: a new pending payment under the invoice's hash.
engine_send_payment(invoice) ==
    Append(payments, [hash |-> invoice.payment_hash, status |-> "Pending",
                      preimage |-> Err])

\* The invoice Node::receive_payment hands back.
IssuedInvoice == [payment_hash |-> PaymentHash(64), tag |-> "r"]

Bolt11Invoice_to_string(invoice) == InvoiceText(invoice.payment_hash, invoice.tag)

\* The peer confirms a channel: it becomes ready and usable.
ChannelReady ==
    /\ proc = "running" /\ node.started
    /\ \E i \in 1..Len(channels) :
        /\ ~channels[i].is_channel_ready
        /\ channels' = [channels EXCEPT ![i] = [@ EXCEPT !.is_channel_ready = TRUE,
                                                         !.is_usable = TRUE]]
    /\ UNCHANGED <<proc, main_vars, peers, payments, balances, snapshots, addr_index, req>>

\* A pending payment resolves: Pending -> Succeeded (with its preimage) or
\* Pending -> Failed.
PaymentResolves ==
    /\ proc = "running" /\ node.started
    /\ \E i \in 1..Len(payments) :
        /\ payments[i].status = "Pending"
        /\ \/ payments' = [payments EXCEPT ![i] =
                              [@ EXCEPT !.status = "Succeeded",
                                        !.preimage = Ok(PreimageOf(payments[i].hash))]]
           \/ payments' = [payments EXCEPT ![i] = [@ EXCEPT !.status = "Failed"]]
    /\ UNCHANGED <<proc, main_vars, peers, channels, balances, snapshots, addr_index, req>>

\* ------------------------------------------------------------------------
\* The handlers (rpc.rs).
\* ------------------------------------------------------------------------
funding_address(r) ==
    /\ Handling(r, "funding_address")
    /\ LET calls == <<Call("new_onchain_address", <<>>)>>
       IN  \/ /\ addr_index' = addr_index + 1
              /\ Responds(r, calls, [address |-> Address_to_string(addr_index)])
           \/ /\ Panics(r, calls)
              /\ UNCHANGED addr_index
    /\ UNCHANGED <<main_vars, peers, channels, payments, balances, snapshots>>

\* open_channel with the funding amount scaled like the push amount.
open_channel_args_funding_scaled(q, socket_addr) ==
    [node_id |-> q.pubkey,
     address |-> socket_addr,
     channel_amount_sats |-> WrappingMul(q.funding_sats, 1000),
     push_to_counterparty_msat |-> WrappingMul(q.push_sats, 1000),
     channel_config |-> "None",
     announce_channel |-> TRUE]

\* The arguments open_channel hands to Node::connect_open_channel.
open_channel_args(q, socket_addr) ==
    [node_id |-> q.pubkey,
     address |-> socket_addr,
     channel_amount_sats |-> q.funding_sats,
     push_to_counterparty_msat |-> WrappingMul(q.push_sats, 1000),
     channel_config |-> "None",
     announce_channel |-> TRUE]

\* open_channel connecting first and opening second: two engine calls.
open_channel_calls_connect_first(args) ==
    <<Call("connect", args), Call("connect_open_channel", args)>>

\* The engine calls open_channel makes once the address has parsed.
open_channel_calls(args) == <<Call("connect_open_channel", args)>>

open_channel(r) ==
    /\ Handling(r, "open_channel")
    /\ LET q           == req[r].input
           socket_addr == SocketAddress_from_str(q.ip_port)
           args        == open_channel_args(q, socket_addr.val)
           calls       == open_channel_calls(args)
       IN  IF ~socket_addr.ok
           THEN Panics(r, <<>>) /\ UNCHANGED <<peers, channels>>
           ELSE \/ /\ MulOverflows(q.push_sats, 1000)
                   /\ Panics(r, <<>>)
                   /\ UNCHANGED <<peers, channels>>
                \/ /\ peers' = engine_connect(args.node_id, args.address)
                   /\ channels' = engine_open_channel(args.node_id, args.channel_amount_sats)
                   /\ Responds(r, calls, [user_channel_id |-> NextUserChannelId])
                \/ /\ Panics(r, calls)
                   /\ UNCHANGED <<peers, channels>>
    /\ UNCHANGED <<main_vars, payments, balances, snapshots, addr_index>>

connect_peer(r) ==
    /\ Handling(r, "connect_peer")
    /\ LET q           == req[r].input
           socket_addr == SocketAddress_from_str(q.ip_port)
           calls       == <<Call("connect", [node_id |-> q.pubkey,
                                             address |-> socket_addr.val,
                                             persist |-> FALSE])>>
       IN  IF ~socket_addr.ok
           THEN Panics(r, <<>>) /\ UNCHANGED peers
           ELSE \/ /\ peers' = engine_connect(q.pubkey, socket_addr.val)
                   /\ Responds(r, calls, [connected |-> TRUE])
                \/ /\ Panics(r, calls)
                   /\ UNCHANGED peers
    /\ UNCHANGED <<main_vars, channels, payments, balances, snapshots, addr_index>>

list_peers(r) ==
    /\ Handling(r, "list_peers")
    /\ Responds(r, <<Call("list_peers", <<>>)>>,
                [peers |-> [i \in 1..Len(peers) |->
                    [address |-> SocketAddress_to_string(peers[i].address),
                     node_id |-> peers[i].node_id]]])
    /\ UNCHANGED <<main_vars, engine_vars>>

\* impl From<ChannelDetails> for CompactChannel
CompactChannel_from(channel) ==
    [channel_id |-> to_lower_hex_string(channel.channel_id),
     counterparty_node_id |-> channel.counterparty_node_id,
     channel_value_sats |-> channel.channel_value_sats,
     user_channel_id |-> channel.user_channel_id,
     outbound_capacity_msat |-> channel.outbound_capacity_msat,
     inbound_capacity_msat |-> channel.inbound_capacity_msat,
     is_channel_ready |-> channel.is_channel_ready,
     is_usable |-> channel.is_usable]

\* list_channels leaving out the channels that are not ready yet.
ListChannelsResponse_ready_only(list) ==
    LET ready == SelectSeq(list, LAMBDA c : c.is_channel_ready)
    IN  [channels |-> [i \in 1..Len(ready) |-> CompactChannel_from(ready[i])]]

\* The channels list_channels puts in its response.
ListChannelsResponse(list) ==
    [channels |-> [i \in 1..Len(list) |-> CompactChannel_from(list[i])]]

list_channels(r) ==
    /\ Handling(r, "list_channels")
    /\ Responds(r, <<Call("list_channels", <<>>)>>, ListChannelsResponse(channels))
    /\ UNCHANGED <<main_vars, engine_vars>>

pay_invoice(r) ==
    /\ Handling(r, "pay_invoice")
    /\ LET invoice == Bolt11Invoice_from_str(req[r].input.invoice)
           calls   == <<Call("send_payment", invoice.val)>>
       IN  IF ~invoice.ok
           THEN Panics(r, <<>>) /\ UNCHANGED payments
           ELSE \/ /\ ~engine_payment(invoice.val.payment_hash).ok
                   /\ payments' = engine_send_payment(invoice.val)
                   /\ Responds(r, calls,
                        [payment_hash |-> to_lower_hex_string(invoice.val.payment_hash)])
                \/ /\ Panics(r, calls)
                   /\ UNCHANGED payments
    /\ UNCHANGED <<main_vars, peers, channels, balances, snapshots, addr_index>>

\* The arguments get_invoice hands to Node::receive_payment.
get_invoice_args(q) ==
    [amount_msat |-> WrappingMul(q.amount_sats, 1000),
     description |-> "description",
     expiry_secs |-> "expiry_secs"]

get_invoice(r) ==
    /\ Handling(r, "get_invoice")
    /\ LET q     == req[r].input
           calls == <<Call("receive_payment", get_invoice_args(q))>>
       IN  \/ /\ MulOverflows(q.amount_sats, 1000)
              /\ Panics(r, <<>>)
           \/ Responds(r, calls, [invoice |-> Bolt11Invoice_to_string(IssuedInvoice)])
           \/ Panics(r, calls)
    /\ UNCHANGED <<main_vars, engine_vars>>

sync(r) ==
    /\ Handling(r, "sync")
    /\ LET calls == <<Call("sync_wallets", <<>>)>>
       IN  \/ /\ balances' \in Balances
              /\ snapshots' = snapshots \cup {balances'}
              /\ Responds(r, calls, [synced |-> TRUE])
           \/ /\ Panics(r, calls)
              /\ UNCHANGED <<balances, snapshots>>
    /\ UNCHANGED <<main_vars, peers, channels, payments, addr_index>>

\* get_balance filling both fields from the total.
GetBalanceResponse_total_twice(snapshot) ==
    [total_onchain_balance_sats |-> snapshot.total_onchain_balance_sats,
     spendable_onchain_balance_sats |-> snapshot.total_onchain_balance_sats]

\* The response get_balance builds from the snapshot list_balances returned.
GetBalanceResponse(snapshot) ==
    [total_onchain_balance_sats |-> snapshot.total_onchain_balance_sats,
     spendable_onchain_balance_sats |-> snapshot.spendable_onchain_balance_sats]

get_balance(r) ==
    /\ Handling(r, "get_balance")
    /\ Responds(r, <<Call("list_balances", <<>>)>>, GetBalanceResponse(balances))
    /\ UNCHANGED <<main_vars, engine_vars>>

\* match payment.status { Pending => "pending", ... }
StatusText(status) ==
    CASE status = "Pending"   -> "pending"
      [] status = "Succeeded" -> "succeeded"
      [] status = "Failed"    -> "failed"

get_payment(r) ==
    /\ Handling(r, "get_payment")
    /\ LET payment_hash_bytes == from_hex(req[r].input.payment_hash, HashLen)
           payment            == engine_payment(payment_hash_bytes.val)
           calls              == <<Call("payment", payment_hash_bytes.val)>>
       IN  IF ~payment_hash_bytes.ok THEN Panics(r, <<>>)
           ELSE IF ~payment.ok THEN Panics(r, calls)
           ELSE Responds(r, calls,
                    [status |-> StatusText(payment.val.status),
                     preimage |-> IF payment.val.preimage.ok
                                  THEN Ok(to_lower_hex_string(payment.val.preimage.val))
                                  ELSE Err])
    /\ UNCHANGED <<main_vars, engine_vars>>

\* ------------------------------------------------------------------------
\* The whole program.
\* ------------------------------------------------------------------------
Main == main_seed \/ main_build \/ main_start \/ main_runtime \/ main_bind

Next ==
    \/ Main
    \/ Accept(AllRequests)
    \/ \E r \in Slots : funding_address(r)
    \/ \E r \in Slots : open_channel(r)
    \/ \E r \in Slots : connect_peer(r)
    \/ \E r \in Slots : list_peers(r)
    \/ \E r \in Slots : list_channels(r)
    \/ \E r \in Slots : pay_invoice(r)
    \/ \E r \in Slots : get_invoice(r)
    \/ \E r \in Slots : sync(r)
    \/ \E r \in Slots : get_balance(r)
    \/ \E r \in Slots : get_payment(r)
    \/ ChannelReady
    \/ PaymentResolves

Spec == Init /\ [][Next]_vars

\* ------------------------------------------------------------------------
\* The program under clients that use part of the route table.
\* ------------------------------------------------------------------------
\* Clients that read and refresh the wallet.
WalletRequests == {Request(v) : v \in {"funding_address", "sync", "get_balance"}}

NextWallet ==
    \/ Main
    \/ Accept(WalletRequests)
    \/ \E r \in Slots : funding_address(r)
    \/ \E r \in Slots : sync(r)
    \/ \E r \in Slots : get_balance(r)

SpecWallet == Init /\ [][NextWallet]_vars

\* Clients that connect peers, open channels and list both.
ChannelRequests ==
    ConnectPeerRequests \cup OpenChannelRequests
        \cup {Request(v) : v \in {"list_peers", "list_channels"}}

NextChannels ==
    \/ Main
    \/ Accept(ChannelRequests)
    \/ \E r \in Slots : open_channel(r)
    \/ \E r \in Slots : connect_peer(r)
    \/ \E r \in Slots : list_peers(r)
    \/ \E r \in Slots : list_channels(r)
    \/ ChannelReady

SpecChannels == Init /\ [][NextChannels]_vars

\* main() and clients that use every route, with one well-formed and one malformed
\* request for each route that parses or scales its input.
DispatchRequests ==
    NoBodyRequests \cup ConnectPeerRequests
        \cup {q \in OpenChannelRequests : q.ip_port # PortTooLarge /\ q.push_sats = U64One}
        \cup {q \in PayInvoiceRequests : q.invoice \notin {InvoiceText(HashA, "y"), InvoiceText(HashB, "x")}}
        \cup {q \in GetInvoiceRequests : q.amount_sats \in {U64One, U64MinOverflow}}
        \cup {q \in GetPaymentRequests : q.payment_hash # to_upper_hex_string(HashB)}

NextDispatch ==
    \/ Main
    \/ Accept(DispatchRequests)
    \/ \E r \in Slots : funding_address(r)
    \/ \E r \in Slots : open_channel(r)
    \/ \E r \in Slots : connect_peer(r)
    \/ \E r \in Slots : list_peers(r)
    \/ \E r \in Slots : list_channels(r)
    \/ \E r \in Slots : pay_invoice(r)
    \/ \E r \in Slots : get_invoice(r)
    \/ \E r \in Slots : sync(r)
    \/ \E r \in Slots : get_balance(r)
    \/ \E r \in Slots : get_payment(r)

SpecDispatch == Init /\ [][NextDispatch]_vars

\* ------------------------------------------------------------------------
\* Properties.
\* ------------------------------------------------------------------------
Done(r, verb) == req[r].state = "done" /\ req[r].input.verb = verb

Responded(r, verb) == Done(r, verb) /\ req[r].outcome = "response"

\* C1: a get-payment request whose path is valid hex of 32 bytes and whose
\* hash the engine does not know ends in a not-found outcome for the
\* caller, and its handler never panics.
C1_UnknownHashNotFound ==
    \A r \in Slots :
        (/\ Done(r, "get_payment")
         /\ from_hex(req[r].input.payment_hash, HashLen).ok
         /\ ~engine_payment(from_hex(req[r].input.payment_hash, HashLen).val).ok)
        => req[r].outcome = "not_found"

\* C2: an open-channel request whose ip_port does not parse as a network
\* address ends in a client-error outcome, without an engine call and
\* without a panic.
C2_BadAddressClientError ==
    \A r \in Slots :
        (Done(r, "open_channel") /\ ~SocketAddress_from_str(req[r].input.ip_port).ok)
        => (req[r].outcome = "client_error" /\ req[r].calls = <<>>)

\* C3: a failure inside one handler becomes an error response for that one
\* request: no finished request is left without a response, and the server
\* keeps running once it serves.
C3_FailureIsolation ==
    /\ \A r \in Slots : req[r].state = "done" => req[r].outcome # "panic"
    /\ pc = "serve" => proc = "running"

C5_InvoiceAmountExact ==
    \A r \in Slots :
        Done(r, "get_invoice")
        => /\ Len(req[r].calls) = 1
           /\ Widen(req[r].calls[1].args.amount_msat)
                = ExactMul(req[r].input.amount_sats, 1000)

\* C6: the listener is bound, and a request accepted, only with the node
\* built and started; when seed decoding, the build or the start fails the
\* process has ended with the listener never opened.
C6_StartupOrdering ==
    /\ listener => (node.built /\ node.started)
    /\ \A r \in Slots : req[r].state # "idle" => (listener /\ node.built /\ node.started)
    /\ (proc = "exited" /\ pc \in {"seed", "build", "start"}) => ~listener

C6_Witness ==
    \E r \in Slots : req[r].state = "done" /\ node.started /\ listener

\* C7: a list-channels response lists, for every user_channel_id that an
\* open-channel response had returned before the list request arrived, a
\* channel with that id, ready or not.
C7_OpenedChannelListed ==
    \A r \in Slots :
        Responded(r, "list_channels")
        => \A u \in req[r].returned :
              \E i \in 1..Len(req[r].response.channels) :
                  req[r].response.channels[i].user_channel_id = u

C7_Witness ==
    \E r \in Slots :
        /\ Responded(r, "list_channels")
        /\ req[r].returned # {}
        /\ \E i \in 1..Len(req[r].response.channels) :
              /\ req[r].response.channels[i].user_channel_id \in req[r].returned
              /\ ~req[r].response.channels[i].is_channel_ready

\* C8: two pay-invoice requests against distinct invoices both receive a
\* response, with different payment hashes, and the engine finds the payment
\* of each returned hash.
C8_BothPaymentsAnswered ==
    \A r, s \in Slots :
        (/\ r # s
         /\ Done(r, "pay_invoice") /\ Done(s, "pay_invoice")
         /\ Bolt11Invoice_from_str(req[r].input.invoice).ok
         /\ Bolt11Invoice_from_str(req[s].input.invoice).ok
         /\ req[r].input.invoice # req[s].input.invoice)
        => /\ req[r].outcome = "response" /\ req[s].outcome = "response"
           /\ req[r].response.payment_hash # req[s].response.payment_hash
           /\ engine_payment(from_hex(req[r].response.payment_hash, HashLen).val).ok
           /\ engine_payment(from_hex(req[s].response.payment_hash, HashLen).val).ok

\* C9: both fields of every get-balance response come from one balance
\* snapshot the engine held: the pair is never mixed from two snapshots
\* around a sync.
C9_BalanceFromOneSnapshot ==
    \A r \in Slots :
        Responded(r, "get_balance")
        => \E b \in snapshots :
              /\ req[r].response.total_onchain_balance_sats = b.total_onchain_balance_sats
              /\ req[r].response.spendable_onchain_balance_sats
                    = b.spendable_onchain_balance_sats

C9_Witness ==
    \E r, s \in Slots :
        /\ Responded(r, "get_balance")
        /\ Responded(s, "sync")
        /\ req[r].response.total_onchain_balance_sats = 5
        /\ req[r].response.spendable_onchain_balance_sats = 3

\* C10 as stated: every request a handler has finished made exactly one
\* engine call.
C10_ExactlyOneEngineCall ==
    \A r \in Slots : req[r].state = "done" => Len(req[r].calls) = 1

\* Whether a request's text input fails to parse in its handler.
ParseFails(q) ==
    CASE q.verb \in {"open_channel", "connect_peer"} -> ~SocketAddress_from_str(q.ip_port).ok
      [] q.verb = "pay_invoice" -> ~Bolt11Invoice_from_str(q.invoice).ok
      [] q.verb = "get_payment" -> ~from_hex(q.payment_hash, HashLen).ok
      [] OTHER -> FALSE

\* Whether a request's amount scaling overflows a u64.
ScalingOverflows(q) ==
    CASE q.verb = "open_channel" -> MulOverflows(q.push_sats, 1000)
      [] q.verb = "get_invoice" -> MulOverflows(q.amount_sats, 1000)
      [] OTHER -> FALSE

\* C10 amended: every handler makes at most one engine call per request:
\* none when a text input (ip_port, invoice, payment hash) does not parse,
\* exactly one when the input parses and the amount scaling fits in a u64,
\* and none or one when the scaling overflows.
C10_AtMostOneEngineCall ==
    \A r \in Slots :
        req[r].state = "done"
        => /\ Len(req[r].calls) <= 1
           /\ ParseFails(req[r].input) => req[r].calls = <<>>
           /\ (~ParseFails(req[r].input) /\ ~ScalingOverflows(req[r].input))
                => Len(req[r].calls) = 1

C10_Witness ==
    \E r, s \in Slots :
        /\ Done(r, "open_channel") /\ req[r].calls = <<>>
        /\ Done(s, "open_channel") /\ Len(req[s].calls) = 1

====
